---- MODULE Spec2Model ----
(***************************************************************************)
(* Model of the YC company fetcher: the URL filter parser                  *)
(* (parse_yc_url_filters), the team-size range parser and the company      *)
(* filter (filter_companies) of 1_fetch_companies_api.py, driven the way   *)
(* fetch_yc_companies_from_url drives them.                                *)
(*                                                                         *)
(* Text is a sequence of one-character strings, so that percent-decoding,  *)
(* lower-casing, substring tests and JSON scanning are computed, not       *)
(* assumed.  A Python dict is a function whose DOMAIN is the set of keys   *)
(* present.  Python values of mixed type carry a tag t.                    *)
(***************************************************************************)
EXTENDS Integers, Sequences, FiniteSets, TLC

\* ------------------------------------------------------------------ bounds
\* most key=value segments in one query string
MaxParams == 2
\* most companies in one fetched list
MaxCompanies == 2

\* ------------------------------------------------------------------ text
UpperCase == <<"A","B","C","D","E","F","G","H","I","J","K","L","M",
               "N","O","P","Q","R","S","T","U","V","W","X","Y","Z">>
LowerCase == <<"a","b","c","d","e","f","g","h","i","j","k","l","m",
               "n","o","p","q","r","s","t","u","v","w","x","y","z">>
Digits == <<"0","1","2","3","4","5","6","7","8","9">>
\* the double-quote character (written as a name to keep the module readable)
DQ == "QUOTE"
\* printable ASCII, code 32 first
Ascii == <<" ","!",DQ,"#","$","%","&","'","(",")","*","+",",","-",".","/",
           "0","1","2","3","4","5","6","7","8","9",":",";","<","=",">","?",
           "@","A","B","C","D","E","F","G","H","I","J","K","L","M","N","O",
           "P","Q","R","S","T","U","V","W","X","Y","Z","[","BACKSLASH","]","^","_",
           "BACKTICK","a","b","c","d","e","f","g","h","i","j","k","l","m","n","o",
           "p","q","r","s","t","u","v","w","x","y","z","{","|","}","~">>

IndexIn(c, seq) == IF \E i \in 1..Len(seq) : seq[i] = c
                   THEN CHOOSE i \in 1..Len(seq) : seq[i] = c
                   ELSE 0

\* str.lower(), one character
LowerChar(c) == IF IndexIn(c, UpperCase) > 0 THEN LowerCase[IndexIn(c, UpperCase)] ELSE c

\* str.lower()
lower(s) == [i \in 1..Len(s) |-> LowerChar(s[i])]

\* Python's  sub in s  on two strings
Contains(sub, s) ==
    \E i \in 0..(Len(s) - Len(sub)) : SubSeq(s, i + 1, i + Len(sub)) = sub

IsDigit(c) == IndexIn(c, Digits) > 0

\* value of a hexadecimal digit, -1 for any other character
HexVal(c) == IF IsDigit(c) THEN IndexIn(c, Digits) - 1
             ELSE IF IndexIn(c, SubSeq(UpperCase, 1, 6)) > 0 THEN 9 + IndexIn(c, SubSeq(UpperCase, 1, 6))
             ELSE IF IndexIn(c, SubSeq(LowerCase, 1, 6)) > 0 THEN 9 + IndexIn(c, SubSeq(LowerCase, 1, 6))
             ELSE -1

\* the character a %XX escape stands for (the inputs of this model stay
\* within printable ASCII; any other byte is shown as the replacement "?")
CharOfCode(n) == IF n >= 32 /\ n <= 126 THEN Ascii[n - 31] ELSE "?"

\* urllib.parse.unquote: every %XX with two hex digits is replaced, once,
\* left to right; a "%" not followed by two hex digits stays
RECURSIVE unquote(_)
unquote(s) ==
    IF s = <<>> THEN <<>>
    ELSE IF s[1] = "%" /\ Len(s) >= 3 /\ HexVal(s[2]) >= 0 /\ HexVal(s[3]) >= 0
         THEN <<CharOfCode(16 * HexVal(s[2]) + HexVal(s[3]))>> \o unquote(SubSeq(s, 4, Len(s)))
         ELSE <<s[1]>> \o unquote(Tail(s))

\* the decoding parse_qs applies to each value: "+" is a space, then unquote
unquote_plus(s) == unquote([i \in 1..Len(s) |-> IF s[i] = "+" THEN " " ELSE s[i]])

\* int() of a run of decimal digits
RECURSIVE ToInt(_)
ToInt(ds) == IF ds = <<>> THEN 0
             ELSE 10 * ToInt(SubSeq(ds, 1, Len(ds) - 1)) + (IndexIn(ds[Len(ds)], Digits) - 1)

\* ------------------------------------------------------------------ values
\* JSON / Python values that can sit in a team-size list
JStr(s) == [t |-> "str", s |-> s, n |-> 0, b |-> FALSE]
JInt(n) == [t |-> "int", s |-> <<>>, n |-> n, b |-> FALSE]
JBool(b) == [t |-> "bool", s |-> <<>>, n |-> 0, b |-> b]
JNull == [t |-> "null", s |-> <<>>, n |-> 0, b |-> FALSE]

\* the values of the raw filters dict: None, a bool or a list
PyNone == [t |-> "none", b |-> FALSE, l |-> <<>>]
PyBool(b) == [t |-> "bool", b |-> b, l |-> <<>>]
PyList(l) == [t |-> "list", b |-> FALSE, l |-> l]
\* a str, its text in l
PyStr(s) == [t |-> "str", b |-> FALSE, l |-> s]

\* the values a company attribute can hold: a str, an int, a bool, a list of
\* str, or null (JSON null, Python None)
CStr(s) == [t |-> "str", s |-> s, n |-> 0, b |-> FALSE, l |-> <<>>]
CInt(n) == [t |-> "int", s |-> <<>>, n |-> n, b |-> FALSE, l |-> <<>>]
CBool(b) == [t |-> "bool", s |-> <<>>, n |-> 0, b |-> b, l |-> <<>>]
CList(l) == [t |-> "list", s |-> <<>>, n |-> 0, b |-> FALSE, l |-> l]
CNull == [t |-> "null", s |-> <<>>, n |-> 0, b |-> FALSE, l |-> <<>>]

\* ------------------------------------------------------------------ json.loads
\* json.loads on the arrays a team_size value can hold: a bracketed,
\* comma-separated list of strings, unsigned integers, null, true and false,
\* with optional blanks; ok = FALSE is a JSONDecodeError.  The inputs of this
\* model hold no nested array, object, sign, fraction or backslash escape.
JFail == [ok |-> FALSE, val |-> JNull, next |-> 0]

RECURSIVE SkipWs(_, _)
SkipWs(b, i) == IF i <= Len(b) /\ b[i] = " " THEN SkipWs(b, i + 1) ELSE i

\* index of the first character at or after i that is not a digit
RECURSIVE DigitsEnd(_, _)
DigitsEnd(b, i) == IF i <= Len(b) /\ IsDigit(b[i]) THEN DigitsEnd(b, i + 1) ELSE i

\* index of the first double quote at or after i, 0 when there is none
RECURSIVE QuoteAt(_, _)
QuoteAt(b, i) == IF i > Len(b) THEN 0
                 ELSE IF b[i] = DQ THEN i
                 ELSE QuoteAt(b, i + 1)

StartsWithAt(b, i, lit) == i + Len(lit) - 1 <= Len(b) /\ SubSeq(b, i, i + Len(lit) - 1) = lit

\* one JSON value starting at b[i]
JValueAt(b, i) ==
    IF b[i] = DQ
    THEN LET q == QuoteAt(b, i + 1) IN
         IF q = 0 \/ Contains(<<"BACKSLASH">>, SubSeq(b, i + 1, q - 1)) THEN JFail
         ELSE [ok |-> TRUE, val |-> JStr(SubSeq(b, i + 1, q - 1)), next |-> q + 1]
    ELSE IF StartsWithAt(b, i, <<"n","u","l","l">>)
    THEN [ok |-> TRUE, val |-> JNull, next |-> i + 4]
    ELSE IF StartsWithAt(b, i, <<"t","r","u","e">>)
    THEN [ok |-> TRUE, val |-> JBool(TRUE), next |-> i + 4]
    ELSE IF StartsWithAt(b, i, <<"f","a","l","s","e">>)
    THEN [ok |-> TRUE, val |-> JBool(FALSE), next |-> i + 5]
    ELSE IF IsDigit(b[i])
    THEN LET e == DigitsEnd(b, i) IN
         IF b[i] = "0" /\ e > i + 1 THEN JFail
         ELSE [ok |-> TRUE, val |-> JInt(ToInt(SubSeq(b, i, e - 1))), next |-> e]
    ELSE JFail

\* the elements of an array body, a value expected at b[i]
RECURSIVE JItems(_, _, _)
JItems(b, i, acc) ==
    LET j == SkipWs(b, i) IN
    IF j > Len(b) THEN [ok |-> FALSE, val |-> <<>>]
    ELSE LET r == JValueAt(b, j) IN
         IF ~r.ok THEN [ok |-> FALSE, val |-> <<>>]
         ELSE LET k == SkipWs(b, r.next) IN
              IF k > Len(b) THEN [ok |-> TRUE, val |-> Append(acc, r.val)]
              ELSE IF b[k] = "," THEN JItems(b, k + 1, Append(acc, r.val))
              ELSE [ok |-> FALSE, val |-> <<>>]

\* json.loads(s) for a text that starts with "[" and ends with "]"
json_loads(s) ==
    IF Len(s) < 2 \/ s[1] # "[" \/ s[Len(s)] # "]" THEN [ok |-> FALSE, val |-> <<>>]
    ELSE LET body == SubSeq(s, 2, Len(s) - 1) IN
         IF SkipWs(body, 1) > Len(body) THEN [ok |-> TRUE, val |-> <<>>]
         ELSE JItems(body, 1, <<>>)

\* ------------------------------------------------------------------ parser
\* parse_team_size_filter: the bracket test is made on the text as given,
\* the text is unquoted before json.loads / before it is wrapped; any
\* exception gives the empty list
parse_team_size_filter(team_size_param) ==
    IF Len(team_size_param) >= 1 /\ team_size_param[1] = "["
       /\ team_size_param[Len(team_size_param)] = "]"
    THEN LET r == json_loads(unquote(team_size_param)) IN
         IF r.ok THEN r.val ELSE <<>>
    ELSE <<JStr(unquote(team_size_param))>>

\* the values of the pairs whose key is key, in order of occurrence, each
\* decoded the way parse_qs decodes it
RECURSIVE ValuesOf(_, _)
ValuesOf(pairs, key) ==
    IF pairs = <<>> THEN <<>>
    ELSE IF pairs[1].k = key
         THEN <<unquote_plus(pairs[1].v)>> \o ValuesOf(Tail(pairs), key)
         ELSE ValuesOf(Tail(pairs), key)

\* urlparse(url).query as key=value pairs: none when the URL has no "?"
QueryOf(u) == IF u.hasQuery THEN u.pairs ELSE <<>>

\* mutant: parse_qs without keep_blank_values drops the blank values
parse_qs_DropsBlank(query) ==
    LET NonBlank(p) == p.v # <<>>
        q == SelectSeq(query, NonBlank)
    IN  [key \in {q[j].k : j \in 1..Len(q)} |-> ValuesOf(q, key)]

\* mutant: the first segment is lost when the query has several
parse_qs_FirstSegmentLost(query) ==
    LET q == IF Len(query) > 1 THEN Tail(query) ELSE query
    IN  [key \in {q[j].k : j \in 1..Len(q)} |-> ValuesOf(q, key)]

\* parse_qs(query, keep_blank_values=True): key -> list of decoded values
parse_qs(query) ==
    [key \in {query[i].k : i \in 1..Len(query)} |-> ValuesOf(query, key)]

\* get_param(key, as_list): the values are unquoted once more
get_param(params, key, as_list) ==
    LET values == IF key \in DOMAIN params THEN params[key] ELSE <<>> IN
    IF values = <<>> THEN (IF as_list THEN PyList(<<>>) ELSE PyNone)
    ELSE LET decoded_values == [i \in 1..Len(values) |-> unquote(values[i])] IN
         IF as_list THEN PyList(decoded_values) ELSE PyStr(decoded_values[1])

TrueWords == {<<"t","r","u","e">>, <<"1">>, <<"y","e","s">>}

get_bool_param(params, key) ==
    LET value == get_param(params, key, FALSE) IN
    IF value.t = "none" THEN PyNone
    ELSE PyBool(lower(value.l) \in TrueWords)

ListKeys == {"batches", "industries", "regions", "statuses", "tags", "stages"}
BoolKeys == {"top_company", "nonprofit", "is_hiring", "app_video_public",
             "demo_day_video_public", "app_answers", "question_answers"}
FilterKeys == ListKeys \cup BoolKeys \cup {"team_sizes"}

\* the query key each filter key is read from
QueryKey(fk) ==
    CASE fk = "batches" -> "batch"
      [] fk = "industries" -> "industry"
      [] fk = "regions" -> "region"
      [] fk = "statuses" -> "status"
      [] fk = "stages" -> "stage"
      [] fk = "team_sizes" -> "team_size"
      [] fk = "is_hiring" -> "isHiring"
      [] OTHER -> fk

\* the filters dict before the clean-up
RawFilters(params) ==
    [fk \in FilterKeys |->
        IF fk \in ListKeys THEN get_param(params, QueryKey(fk), TRUE)
        ELSE IF fk \in BoolKeys THEN get_bool_param(params, QueryKey(fk))
        ELSE IF "team_size" \in DOMAIN params
             THEN PyList(parse_team_size_filter(params["team_size"][1]))
             ELSE PyList(<<>>)]

\* mutant: the clean-up forgets the empty lists
KeepFilter_KeepsEmptyLists(value) == value.t # "none"

\* "value is not None and value != []"
KeepFilter(value) == value.t # "none" /\ ~(value.t = "list" /\ value.l = <<>>)

\* cleaned_filters: the kept keys, a bool as BOOLEAN, a list as a sequence
CleanFilters(raw) ==
    [fk \in {k \in DOMAIN raw : KeepFilter(raw[k])} |->
        IF raw[fk].t = "bool" THEN raw[fk].b ELSE raw[fk].l]

parse_yc_url_filters(u) == CleanFilters(RawFilters(parse_qs(QueryOf(u))))

\* ------------------------------------------------------------------ team size
\* re.findall(r'\d+', s): the maximal runs of digits, left to right
RECURSIVE DigitRuns(_)
DigitRuns(s) ==
    IF s = <<>> THEN <<>>
    ELSE IF IsDigit(s[1])
         THEN LET e == DigitsEnd(s, 1) IN
              <<SubSeq(s, 1, e - 1)>> \o DigitRuns(SubSeq(s, e, Len(s)))
         ELSE DigitRuns(Tail(s))

\* str.replace(',', '')
RECURSIVE RemoveCommas(_)
RemoveCommas(s) ==
    IF s = <<>> THEN <<>>
    ELSE IF s[1] = "," THEN RemoveCommas(Tail(s))
         ELSE <<s[1]>> \o RemoveCommas(Tail(s))

\* Python truth value of a team-size token
TokenTruthy(tok) ==
    CASE tok.t = "str" -> tok.s # <<>>
      [] tok.t = "int" -> tok.n # 0
      [] tok.t = "bool" -> tok.b
      [] OTHER -> FALSE

Range(lo, hi, inf) == [raise |-> FALSE, min |-> lo, max |-> hi, inf |-> inf]
RangeRaise == [raise |-> TRUE, min |-> 0, max |-> 0, inf |-> FALSE]

\* mutant: parse_team_size_range without the '1,000+' / '1000+' case
parse_team_size_range_NoOpenBucket(team_size_str) ==
    IF ~TokenTruthy(team_size_str) THEN Range(0, 0, FALSE)
    ELSE IF team_size_str.t # "str" THEN RangeRaise
    ELSE LET numbers == DigitRuns(RemoveCommas(team_size_str.s)) IN
         IF numbers = <<>> THEN Range(0, 0, FALSE)
         ELSE IF Len(numbers) = 1 THEN Range(ToInt(numbers[1]), ToInt(numbers[1]), FALSE)
         ELSE Range(ToInt(numbers[1]), ToInt(numbers[2]), FALSE)

\* parse_team_size_range: (min, max), inf when max is float('inf');
\* raise when  '1,000+' in token  is a TypeError (the token is no str)
parse_team_size_range(team_size_str) ==
    IF ~TokenTruthy(team_size_str) THEN Range(0, 0, FALSE)
    ELSE IF team_size_str.t # "str" THEN RangeRaise
    ELSE IF Contains(<<"1", ",", "0", "0", "0", "+">>, team_size_str.s)
            \/ Contains(<<"1", "0", "0", "0", "+">>, team_size_str.s)
         THEN Range(1000, 0, TRUE)
    ELSE LET numbers == DigitRuns(RemoveCommas(team_size_str.s)) IN
         IF numbers = <<>> THEN Range(0, 0, FALSE)
         ELSE IF Len(numbers) = 1 THEN Range(ToInt(numbers[1]), ToInt(numbers[1]), FALSE)
         ELSE Range(ToInt(numbers[1]), ToInt(numbers[2]), FALSE)

\* Python truth value of a company attribute
Truthy(v) ==
    CASE v.t = "str" -> v.s # <<>>
      [] v.t = "int" -> v.n # 0
      [] v.t = "bool" -> v.b
      [] v.t = "list" -> v.l # <<>>
      [] OTHER -> FALSE

\* "company_team_size or 0" as a number; ok = FALSE when the value cannot be
\* compared with the int bounds (a non-empty str or list)
CompanySize(v) ==
    IF ~Truthy(v) THEN [ok |-> TRUE, n |-> 0]
    ELSE IF v.t = "int" THEN [ok |-> TRUE, n |-> v.n]
    ELSE IF v.t = "bool" THEN [ok |-> TRUE, n |-> 1]
    ELSE [ok |-> FALSE, n |-> 0]

\* mutant: the loop without the special case of the token "5"
RECURSIVE TeamSizeLoop_NoFive(_, _, _)
TeamSizeLoop_NoFive(size, filter_team_sizes, i) ==
    IF i > Len(filter_team_sizes) THEN "fail"
    ELSE LET r == parse_team_size_range(filter_team_sizes[i]) IN
         IF r.raise \/ ~size.ok THEN "raise"
         ELSE IF r.min <= size.n /\ (r.inf \/ size.n <= r.max) THEN "pass"
         ELSE TeamSizeLoop_NoFive(size, filter_team_sizes, i + 1)

\* the for loop of matches_team_size_filter from token i on:
\* "pass" (return True), "fail" (return False) or "raise"
RECURSIVE TeamSizeLoop(_, _, _)
TeamSizeLoop(size, filter_team_sizes, i) ==
    IF i > Len(filter_team_sizes) THEN "fail"
    ELSE LET filter_size == filter_team_sizes[i]
             r == parse_team_size_range(filter_size) IN
         IF r.raise \/ ~size.ok THEN "raise"
         ELSE IF r.min <= size.n /\ (r.inf \/ size.n <= r.max) THEN "pass"
         ELSE IF filter_size = JStr(<<"5">>) /\ size.n >= 5 THEN "pass"
         ELSE TeamSizeLoop(size, filter_team_sizes, i + 1)

matches_team_size_filter(company_team_size, filter_team_sizes) ==
    IF filter_team_sizes = <<>> THEN "pass"
    ELSE TeamSizeLoop(CompanySize(company_team_size), filter_team_sizes, 1)

\* ------------------------------------------------------------------ filter
\* company.get(key, default)
Get(company, key, default) == IF key \in DOMAIN company THEN company[key] ELSE default

\* any(token.lower() in text.lower() for token in tokens), text one
\* attribute value: "raise" when a token is tried and the value has no
\* lower() (it is not a str)
AnyTokenIn(tokens, v) ==
    IF tokens = <<>> THEN "fail"
    ELSE IF v.t # "str" THEN "raise"
    ELSE IF \E i \in 1..Len(tokens) : Contains(lower(tokens[i]), lower(v.s)) THEN "pass"
    ELSE "fail"

\* the items a for loop over the value visits: the entries of a list, the
\* characters of a str; ok = FALSE when the value is not iterable
Iterate(v) ==
    CASE v.t = "list" -> [ok |-> TRUE, items |-> v.l]
      [] v.t = "str" -> [ok |-> TRUE, items |-> [i \in 1..Len(v.s) |-> <<v.s[i]>>]]
      [] OTHER -> [ok |-> FALSE, items |-> <<>>]

\* any(any(token.lower() in entry.lower() for entry in value) for token in tokens)
AnyTokenInAny(tokens, v) ==
    IF tokens = <<>> THEN "fail"
    ELSE IF ~Iterate(v).ok THEN "raise"
    ELSE IF \E i \in 1..Len(tokens) : \E j \in 1..Len(Iterate(v).items) :
                Contains(lower(tokens[i]), lower(Iterate(v).items[j])) THEN "pass"
    ELSE "fail"

\* lines 199-215: the industry field, then the industries list
industry_check(company, tokens) ==
    LET company_industry == Get(company, "industry", CStr(<<>>))
        company_industries == Get(company, "industries", CList(<<>>))
        first == AnyTokenIn(tokens, company_industry) IN
    IF first = "fail" /\ Truthy(company_industries)
    THEN AnyTokenInAny(tokens, company_industries)
    ELSE first

\* lines 218-236: the regions list, then the all_locations text
region_check(company, tokens) ==
    LET company_regions == Get(company, "regions", CList(<<>>))
        company_locations == Get(company, "all_locations", CStr(<<>>))
        first == AnyTokenInAny(tokens, company_regions) IN
    IF first = "fail" THEN AnyTokenIn(tokens, company_locations) ELSE first

\* lines 268-276: (filter key, company key), in the order they are tried
boolean_filters ==
    << <<"top_company", "top_company">>, <<"nonprofit", "nonprofit">>,
       <<"is_hiring", "isHiring">>, <<"app_video_public", "app_video_public">>,
       <<"demo_day_video_public", "demo_day_video_public">>,
       <<"app_answers", "app_answers">>, <<"question_answers", "question_answers">> >>

\* mutant: the comparison without turning a str into a bool first
FlagDiffers_NoCoercion(filter_value, v) ==
    CASE v.t = "bool" -> filter_value # v.b
      [] v.t = "int" -> v.n # (IF filter_value THEN 1 ELSE 0)
      [] OTHER -> TRUE

\* filter_value != company_value, after a str is turned into a bool
FlagDiffers(filter_value, v) ==
    CASE v.t = "str" -> filter_value # (lower(v.s) \in TrueWords)
      [] v.t = "bool" -> filter_value # v.b
      [] v.t = "int" -> v.n # (IF filter_value THEN 1 ELSE 0)
      [] OTHER -> TRUE

\* lines 278-290: skip_company after the loop over boolean_filters from i on
RECURSIVE skip_company(_, _, _)
skip_company(company, filters, i) ==
    IF i > Len(boolean_filters) THEN FALSE
    ELSE IF boolean_filters[i][1] \in DOMAIN filters
            /\ FlagDiffers(filters[boolean_filters[i][1]],
                           Get(company, boolean_filters[i][2], CBool(FALSE)))
         THEN TRUE
         ELSE skip_company(company, filters, i + 1)

\* one category of the loop body: "pass" when the key is not in filters
CategoryCheck(fk, company, filters) ==
    IF fk = "booleans" THEN (IF skip_company(company, filters, 1) THEN "fail" ELSE "pass")
    ELSE IF fk \notin DOMAIN filters THEN "pass"
    ELSE CASE fk = "batches" -> AnyTokenIn(filters[fk], Get(company, "batch", CStr(<<>>)))
           [] fk = "industries" -> industry_check(company, filters[fk])
           [] fk = "regions" -> region_check(company, filters[fk])
           [] fk = "statuses" -> AnyTokenIn(filters[fk], Get(company, "status", CStr(<<>>)))
           [] fk = "tags" -> AnyTokenInAny(filters[fk], Get(company, "tags", CList(<<>>)))
           [] fk = "stages" -> AnyTokenIn(filters[fk], Get(company, "stage", CStr(<<>>)))
           [] fk = "team_sizes" ->
                matches_team_size_filter(Get(company, "team_size", CInt(0)), filters[fk])
           [] OTHER -> "pass"

\* the order in which the loop body tries the categories
CategoryOrder == <<"batches", "industries", "regions", "statuses", "tags", "stages",
                   "team_sizes", "booleans">>

\* lines 187-296, one pass of the loop body from category i on: "accept"
\* (the append is reached), "reject" (a continue) or "raise"
RECURSIVE LoopBody(_, _, _)
LoopBody(company, filters, i) ==
    IF i > Len(CategoryOrder) THEN "accept"
    ELSE LET r == CategoryCheck(CategoryOrder[i], company, filters) IN
         IF r = "fail" THEN "reject"
         ELSE IF r = "raise" THEN "raise"
         ELSE LoopBody(company, filters, i + 1)

\* mutant: an empty FilterSpec lets nothing through
company_decision_EmptyRejects(company, filters) ==
    IF DOMAIN filters = {} THEN "reject" ELSE LoopBody(company, filters, 1)

company_decision(company, filters) == LoopBody(company, filters, 1)

\* ------------------------------------------------------------------ inputs
\* the key=value segments a query string is built from, values as written
\* in the URL (percent-encoded)
Segments ==
    {[k |-> "batch", v |-> <<"S","u","m","m","e","r","%","2","0","2","0","2","5">>],
     [k |-> "batch", v |-> <<"w","i","n","t","e","r">>],
     [k |-> "batch", v |-> <<>>],
     [k |-> "top_company", v |-> <<"t","r","u","e">>],
     [k |-> "top_company", v |-> <<"N","o">>],
     [k |-> "top_company", v |-> <<"%","2","5","7","4","r","u","e">>],
     [k |-> "nonprofit", v |-> <<>>],
     [k |-> "isHiring", v |-> <<"Y","E","S">>],
     [k |-> "team_size", v |-> <<"5">>],
     [k |-> "team_size", v |-> <<"1","0">>],
     [k |-> "team_size", v |-> <<"%","5","B","%","2","2","5","%","2","2","%","2","C","%","2","2","1","%","2","C","0","0","0","%","2","B","%","2","2","%","5","D">>],
     [k |-> "team_size", v |-> <<"[","5",",","%","2","2","1","-","1","0","%","2","2","]">>],
     [k |-> "team_size", v |-> <<"[","]">>],
     [k |-> "team_size", v |-> <<"[","5",",","]">>],
     [k |-> "team_size", v |-> <<"%","2","5","5","B","1","%","2","5","5","D">>],
     [k |-> "team_size", v |-> <<>>],
     [k |-> "team_size", v |-> <<"1",",","0","0","0","%","2","B">>],
     [k |-> "team_size", v |-> <<"5","0","0","%","2","B">>],
     [k |-> "status", v |-> <<"a","c","t","i","v","e">>],
     [k |-> "tags", v |-> <<"a","i">>],
     [k |-> "region", v |-> <<"s","a","n">>],
     [k |-> "industry", v |-> <<"c","o","n","s","u","m","e","r">>],
     [k |-> "stage", v |-> <<"E","a","r","l","y">>],
     [k |-> "utm_source", v |-> <<"x">>]}

SeqsUpTo(S, n) == UNION {[1..k -> S] : k \in 0..n}

\* a URL: without "?" (hasQuery = FALSE), or with a query of up to MaxParams
\* segments
NoUrl == [hasQuery |-> FALSE, pairs |-> <<>>]
Urls == {[hasQuery |-> FALSE, pairs |-> <<>>]}
        \cup {[hasQuery |-> TRUE, pairs |-> p] : p \in SeqsUpTo(Segments, MaxParams)}

\* company records as the API returns them: attributes may be missing or null
Acme ==
    [batch |-> CStr(<<"S","u","m","m","e","r"," ","2","0","2","5">>),
     industry |-> CStr(<<"C","o","n","s","u","m","e","r">>),
     industries |-> CList(<<<<"C","o","n","s","u","m","e","r">>, <<"R","e","t","a","i","l">>>>),
     regions |-> CList(<<<<"A","m","e","r","i","c","a">>>>),
     all_locations |-> CStr(<<"S","a","n"," ","J","o","s","e">>),
     status |-> CStr(<<"A","c","t","i","v","e">>),
     tags |-> CList(<<<<"A","I">>>>),
     stage |-> CStr(<<"E","a","r","l","y">>),
     team_size |-> CInt(5),
     top_company |-> CBool(TRUE),
     isHiring |-> CStr(<<"t","r","u","e">>),
     name |-> CStr(<<"A","c","m","e">>)]

Bolt ==
    [batch |-> CStr(<<"W","i","n","t","e","r"," ","2","0","2","4">>),
     industry |-> CStr(<<"B","2","B">>),
     industries |-> CList(<<<<"B","2","B">>, <<"C","o","n","s","u","m","e","r">>>>),
     regions |-> CNull,
     all_locations |-> CStr(<<"S","a","n"," ","J","o","s","e">>),
     stage |-> CStr(<<"G","r","o","w","t","h">>),
     team_size |-> CInt(999),
     top_company |-> CBool(FALSE),
     name |-> CStr(<<"B","o","l","t">>)]

Cora ==
    [batch |-> CNull,
     industry |-> CStr(<<"F","i","n","t","e","c","h">>),
     team_size |-> CInt(10000),
     top_company |-> CStr(<<"t","r","u","e">>),
     isHiring |-> CBool(TRUE),
     name |-> CStr(<<"C","o","r","a">>)]

Dune ==
    [name |-> CStr(<<"D","u","n","e">>)]

Echo ==
    [batch |-> CStr(<<"S","u","m","m","e","r"," ","2","0","2","5">>),
     industry |-> CStr(<<"C","o","n","s","u","m","e","r"," ","T","e","c","h">>),
     regions |-> CList(<<<<"E","u","r","o","p","e">>>>),
     all_locations |-> CStr(<<"P","a","r","i","s">>),
     stage |-> CStr(<<"E","a","r","l","y">>),
     team_size |-> CInt(10),
     top_company |-> CBool(FALSE),
     isHiring |-> CNull,
     tags |-> CNull,
     name |-> CStr(<<"E","c","h","o">>)]

Flux ==
    [batch |-> CStr(<<"S","u","m","m","e","r"," ","2","0","2","5"," ","B","a","t","c","h">>),
     industry |-> CNull,
     industries |-> CList(<<<<"C","o","n","s","u","m","e","r">>>>),
     team_size |-> CInt(1000),
     top_company |-> CBool(TRUE),
     name |-> CStr(<<"F","l","u","x">>)]

Companies == {Acme, Bolt, Cora, Dune, Echo, Flux}

CompanyLists == SeqsUpTo(Companies, MaxCompanies)

\* ------------------------------------------------------------------ state
VARIABLES
    url,                 \* the argument of parse_yc_url_filters, from the call to its return
    filters,             \* the FilterSpec parse_yc_url_filters returned
    companies,           \* all_companies, the fetched list
    i,                   \* companies handled so far by the loop of filter_companies
    filtered_companies,  \* the list filter_companies builds
    decision,            \* how the loop body ended for company i
    pc                   \* where fetch_yc_companies_from_url stands

\* yc_companies.csv and the DataFrame 2_fetch_emails.py and
\* 3_send_cold_emails.py read it into
VARIABLES
    csv,                 \* yc_companies.csv on disk: one row per company
    df,                  \* the DataFrame read from the file
    start                \* the file as it was when the run began (history)

\* the state of 3_send_cold_emails.py (send_cold_emails)
VARIABLES
    companies_to_email,  \* the indices of the rows the send loop iterates over
    handled,             \* rows of companies_to_email the loop has finished
    sent_count,          \* emails sent successfully
    failed_count,        \* emails whose send failed
    delivered,           \* rows with a successful send in this run (history)
    attempted,           \* rows a send was attempted for in this run (history)
    saves,               \* values of handled at the saves made inside the loop (history)
    send_pc              \* where send_cold_emails stands

\* the state of 2_fetch_emails.py (fetch_all_emails)
VARIABLES
    companies_to_process, \* the indices of the rows the scrape loop iterates over
    processed_count,      \* rows the loop has finished
    scraped,              \* the rows scraped in this run, in order (history)
    email_pc              \* where fetch_all_emails stands

VARIABLES
    worksheet,           \* the rows of the master spreadsheet
    master_df,           \* what load_master_database returned
    new_companies,       \* what fetch_yc_companies returned to main
    merged_df,           \* what merge_companies_with_master returned
    companies_needing_emails, \* the indices of the rows main extracts emails for
    extracted,           \* rows the extraction loop has finished
    sheet_before,        \* the spreadsheet before the last update_master_database (history)
    upload,              \* how the last update_master_database ended (history)
    master_pc            \* where main of yc_outreach_tool.py stands

VARIABLES
    body,                \* the body of the POST /extract request
    server_companies,    \* what fetch_yc_companies returned to the handler
    results,             \* the entries built so far
    response,            \* the response of the handler
    fetches,             \* calls of fetch_yc_companies made for the request (history)
    extract_pc           \* where extract_emails stands

apiVars == <<url, filters, companies, i, filtered_companies, decision, pc>>
fileVars == <<csv, df, start>>
sendVars == <<companies_to_email, handled, sent_count, failed_count,
              delivered, attempted, saves, send_pc>>
emailVars == <<companies_to_process, processed_count, scraped, email_pc>>
masterVars == <<worksheet, master_df, new_companies, merged_df,
                companies_needing_emails, extracted, sheet_before, upload, master_pc>>
extractVars == <<body, server_companies, results, response, fetches, extract_pc>>

\* what the steps of one script leave alone
scriptVars == <<fileVars, sendVars, emailVars, masterVars, extractVars>>
besideSend == <<apiVars, emailVars, masterVars, extractVars>>
besideEmail == <<apiVars, sendVars, masterVars, extractVars>>
besideMaster == <<apiVars, fileVars, sendVars, emailVars, extractVars>>
besideExtract == <<apiVars, fileVars, sendVars, emailVars, masterVars>>

vars == <<apiVars, fileVars, sendVars, emailVars, masterVars, extractVars>>

\* fetch_yc_companies_from_url has not been called
ApiIdle ==
    /\ url = NoUrl
    /\ filters = <<>>
    /\ companies = <<>>
    /\ i = 0
    /\ filtered_companies = <<>>
    /\ decision = "none"
    /\ pc = "start"

\* no script has touched the file
FileIdle ==
    /\ csv = <<>>
    /\ df = <<>>
    /\ start = <<>>

\* send_cold_emails has not been called
SendIdle ==
    /\ companies_to_email = <<>>
    /\ handled = 0
    /\ sent_count = 0
    /\ failed_count = 0
    /\ delivered = {}
    /\ attempted = {}
    /\ saves = <<>>
    /\ send_pc = "idle"

\* fetch_all_emails has not been called
EmailIdle ==
    /\ companies_to_process = <<>>
    /\ processed_count = 0
    /\ scraped = <<>>
    /\ email_pc = "idle"

\* main of yc_outreach_tool.py has not been called
MasterIdle ==
    /\ worksheet = <<>>
    /\ master_df = <<>>
    /\ new_companies = <<>>
    /\ merged_df = <<>>
    /\ companies_needing_emails = <<>>
    /\ extracted = 0
    /\ sheet_before = <<>>
    /\ upload = "none"
    /\ master_pc = "idle"

\* no request has reached the extension server
ExtractIdle ==
    /\ body = "none"
    /\ server_companies = <<>>
    /\ results = <<>>
    /\ response = <<>>
    /\ fetches = 0
    /\ extract_pc = "idle"

Init == ApiIdle /\ FileIdle /\ SendIdle /\ EmailIdle /\ MasterIdle /\ ExtractIdle

\* filters = parse_yc_url_filters(yc_url)
ParseUrl ==
    /\ pc = "start"
    /\ \E u \in Urls :
        /\ url' = u
        /\ filters' = parse_yc_url_filters(u)
    /\ pc' = "parsed"
    /\ UNCHANGED <<companies, i, filtered_companies, decision>>
    /\ UNCHANGED scriptVars

\* all_companies = fetch_all_yc_companies(); nothing fetched ends the run,
\* otherwise filter_companies(all_companies, filters) starts; the parser has
\* returned and its argument is gone
FetchAll ==
    /\ pc = "parsed"
    /\ \E cs \in CompanyLists :
        /\ companies' = cs
        /\ pc' = IF cs = <<>> THEN "done" ELSE "filtering"
    /\ url' = NoUrl
    /\ UNCHANGED <<filters, i, filtered_companies, decision>>
    /\ UNCHANGED scriptVars

\* mutant: the loop body marks an accepted record in the input list
FilterCompany_MarksRecord ==
    /\ pc = "filtering"
    /\ i < Len(companies)
    /\ LET d == company_decision(companies[i + 1], filters) IN
        /\ decision' = d
        /\ filtered_companies' = IF d = "accept"
                                 THEN Append(filtered_companies, companies[i + 1])
                                 ELSE filtered_companies
        /\ companies' = IF d = "accept"
                        THEN [companies EXCEPT ![i + 1] =
                                [key \in DOMAIN @ \cup {"matched"} |->
                                    IF key = "matched" THEN CBool(TRUE) ELSE @[key]]]
                        ELSE companies
        /\ i' = IF d = "raise" THEN i ELSE i + 1
        /\ pc' = IF d = "raise" THEN "raised" ELSE "filtering"
    /\ UNCHANGED <<url, filters>>
    /\ UNCHANGED scriptVars

\* mutant: the loop body rejects a record equal to one it has accepted before
FilterCompany_SkipsRepeats ==
    /\ pc = "filtering"
    /\ i < Len(companies)
    /\ LET seen == \E j \in 1..Len(filtered_companies) : filtered_companies[j] = companies[i + 1]
           d == IF seen THEN "reject" ELSE company_decision(companies[i + 1], filters) IN
        /\ decision' = d
        /\ filtered_companies' = IF d = "accept"
                                 THEN Append(filtered_companies, companies[i + 1])
                                 ELSE filtered_companies
        /\ i' = IF d = "raise" THEN i ELSE i + 1
        /\ pc' = IF d = "raise" THEN "raised" ELSE "filtering"
    /\ UNCHANGED <<url, filters, companies>>
    /\ UNCHANGED scriptVars

\* one pass of the loop body of filter_companies, for company i + 1
FilterCompany ==
    /\ pc = "filtering"
    /\ i < Len(companies)
    /\ LET d == company_decision(companies[i + 1], filters) IN
        /\ decision' = d
        /\ filtered_companies' = IF d = "accept"
                                 THEN Append(filtered_companies, companies[i + 1])
                                 ELSE filtered_companies
        /\ i' = IF d = "raise" THEN i ELSE i + 1
        /\ pc' = IF d = "raise" THEN "raised" ELSE "filtering"
    /\ UNCHANGED <<url, filters, companies>>
    /\ UNCHANGED scriptVars

\* return filtered_companies
FilterReturn ==
    /\ pc = "filtering"
    /\ i = Len(companies)
    /\ pc' = "done"
    /\ UNCHANGED <<url, filters, companies, i, filtered_companies, decision>>
    /\ UNCHANGED scriptVars

Next == ParseUrl \/ FetchAll \/ FilterCompany \/ FilterReturn

Spec == Init /\ [][Next]_vars

\* ------------------------------------------------------------------ claims
\* the company the last decision is about
Current == IF pc = "raised" THEN i + 1 ELSE i

\* one filter token alone lets the company through its category
TokenPasses(fk, company, fs, k) ==
    CategoryCheck(fk, company, [x \in {fk} |-> <<fs[fk][k]>>]) = "pass"

\* one boolean flag alone lets the company through
FlagPasses(fk, company, fs) == ~skip_company(company, [x \in {fk} |-> fs[fk]], 1)

\* OR within a category: some token of the list matches; a flag must agree
CategoryPasses(fk, company, fs) ==
    IF fk \in BoolKeys THEN FlagPasses(fk, company, fs)
    ELSE \E k \in 1..Len(fs[fk]) : TokenPasses(fk, company, fs, k)

\* AND across the categories present in the FilterSpec
AllCategoriesPass(company, fs) == \A fk \in DOMAIN fs : CategoryPasses(fk, company, fs)

C2_ReturnsMatchingSubsequence ==
    (pc \in {"done", "raised"} /\ companies # <<>>) =>
        /\ pc = "done"
        /\ LET Matches(c) == AllCategoriesPass(c, filters) IN
           filtered_companies = SelectSeq(companies, Matches)

RecognizedQueryKeys == {QueryKey(fk) : fk \in FilterKeys}

NoRecognizedKey(u) == \A j \in 1..Len(QueryOf(u)) : QueryOf(u)[j].k \notin RecognizedQueryKeys

\* C3: a URL with no query string or no recognized query key gives a
\* FilterSpec with zero keys, and under a FilterSpec with zero keys every
\* record is accepted: the records handled so far are all in the result.
C3_NoKeysAcceptsAll ==
    /\ (pc = "parsed" /\ NoRecognizedKey(url)) => DOMAIN filters = {}
    /\ (pc \in {"filtering", "done", "raised"} /\ DOMAIN filters = {}) =>
            /\ pc # "raised"
            /\ decision \in {"none", "accept"}
            /\ filtered_companies = SubSeq(companies, 1, i)

\* C3 witness: a URL with only an unrecognized key was parsed
C3_WitnessParsed ==
    /\ pc = "parsed"
    /\ url.hasQuery /\ Len(url.pairs) = 1 /\ url.pairs[1].k = "utm_source"
    /\ DOMAIN filters = {}

\* C3 witness: with the empty FilterSpec two records, one with null
\* attributes, were both accepted
C3_Witness ==
    /\ pc = "done"
    /\ DOMAIN filters = {}
    /\ companies = <<Cora, Dune>>
    /\ filtered_companies = companies

\* C4: no exception propagates out of the parser or out of the matching of
\* a record.
C4_NoExceptionPropagates == pc # "raised"

HasKey(pairs, key) == \E j \in 1..Len(pairs) : pairs[j].k = key

\* the first occurrence of key in the query
FirstIndex(pairs, key) ==
    CHOOSE j \in 1..Len(pairs) : pairs[j].k = key /\ \A m \in 1..(j - 1) : pairs[m].k # key

\* the value of a query parameter: its text in the URL, percent-decoded
ValueAt(pairs, j) == unquote_plus(pairs[j].v)

\* C5: a boolean parameter is read from its first occurrence only; the
\* FilterSpec value is true iff that value, lower-cased, is "true", "1" or
\* "yes", false otherwise; the key is absent when the parameter is absent.
C5_BooleanFromFirstOccurrence ==
    pc = "parsed" =>
        \A fk \in BoolKeys :
            IF HasKey(QueryOf(url), QueryKey(fk))
            THEN /\ fk \in DOMAIN filters
                 /\ filters[fk] =
                        (lower(ValueAt(QueryOf(url), FirstIndex(QueryOf(url), QueryKey(fk))))
                            \in TrueWords)
            ELSE fk \notin DOMAIN filters

Bracketed(v) == Len(v) >= 1 /\ v[1] = "[" /\ v[Len(v)] = "]"

\* C6: the first team_size value is deserialized as a JSON array when it
\* starts with "[" and ends with "]" (an empty list when it is not valid
\* JSON), otherwise it becomes a one-element list holding the value.
C6_TeamSizeListOrSingle ==
    (pc = "parsed" /\ HasKey(QueryOf(url), "team_size")) =>
        LET v == ValueAt(QueryOf(url), FirstIndex(QueryOf(url), "team_size"))
            expected == IF Bracketed(v)
                        THEN (IF json_loads(v).ok THEN json_loads(v).val ELSE <<>>)
                        ELSE <<JStr(v)>>
        IN  IF expected = <<>> THEN "team_sizes" \notin DOMAIN filters
            ELSE "team_sizes" \in DOMAIN filters /\ filters["team_sizes"] = expected

\* the URL without the occurrences of key
WithoutKey(u, key) ==
    LET Other(p) == p.k # key IN [u EXCEPT !.pairs = SelectSeq(u.pairs, Other)]

\* the team_size parameter is there and its list came out empty
EmptyTeamSize(u) ==
    /\ HasKey(QueryOf(u), "team_size")
    /\ parse_team_size_filter(parse_qs(QueryOf(u))["team_size"][1]) = <<>>

\* C7: no key of a returned FilterSpec holds an empty list (a flag holds a
\* bool, never None), and a parameter whose value list is empty gives the
\* FilterSpec of the URL without that parameter.
C7_NoEmptyValues ==
    pc = "parsed" =>
        /\ \A fk \in DOMAIN filters :
                IF fk \in BoolKeys THEN filters[fk] \in BOOLEAN ELSE filters[fk] # <<>>
        /\ EmptyTeamSize(url) => filters = parse_yc_url_filters(WithoutKey(url, "team_size"))

\* C7 witness: team_size=[] or a malformed array beside another filter; the
\* FilterSpec has the other key and no team_sizes
C7_Witness ==
    /\ pc = "parsed"
    /\ EmptyTeamSize(url)
    /\ HasKey(QueryOf(url), "batch")
    /\ DOMAIN filters = {"batches"}

\* the occurrences of a parameter the parser reads: every occurrence of a
\* list parameter, the first occurrence of a boolean parameter and of
\* team_size
IsRead(pairs, fk, j) ==
    /\ pairs[j].k = QueryKey(fk)
    /\ fk \in ListKeys \/ j = FirstIndex(pairs, QueryKey(fk))

\* C8: a key given with no value is not treated as absent but kept as an
\* empty string: the FilterSpec key is present, a list parameter holding
\* the empty string, a boolean parameter false, team_size the list holding
\* the empty string.
C8_BlankValueKept ==
    pc = "parsed" =>
        \A fk \in FilterKeys : \A j \in 1..Len(QueryOf(url)) :
            (IsRead(QueryOf(url), fk, j) /\ QueryOf(url)[j].v = <<>>) =>
                /\ fk \in DOMAIN filters
                /\ fk \in ListKeys => \E m \in 1..Len(filters[fk]) : filters[fk][m] = <<>>
                /\ fk \in BoolKeys => filters[fk] = FALSE
                /\ fk = "team_sizes" => filters[fk] = <<JStr(<<>>)>>

\* C8 witness: "batch=" and "nonprofit=" were parsed
C8_Witness ==
    /\ pc = "parsed"
    /\ url.pairs = <<[k |-> "batch", v |-> <<>>], [k |-> "nonprofit", v |-> <<>>]>>
    /\ DOMAIN filters = {"batches", "nonprofit"}

\* the orders in which n segments can be written
Perms(n) == {f \in [1..n -> 1..n] : \A a, b \in 1..n : f[a] = f[b] => a = b}

Permuted(u, f) == [u EXCEPT !.pairs = [j \in 1..Len(u.pairs) |-> u.pairs[f[j]]]]

\* the occurrences of each key stay in their relative order
KeyOrderKept(pairs, f) ==
    \A a, b \in 1..Len(pairs) : (a < b /\ pairs[f[a]].k = pairs[f[b]].k) => f[a] < f[b]

SizeOf(company) ==
    LET v == Get(company, "team_size", CInt(0)) IN IF v.t = "int" THEN v.n ELSE 0

IsBareNumber(tok) ==
    tok.t = "str" /\ tok.s # <<>> /\ \A j \in 1..Len(tok.s) : IsDigit(tok.s[j])

\* C10: with a team-size filter of one bare number N a record is accepted
\* iff its team size equals N, except for the token "5", which accepts iff
\* the team size is at least 5.
C10_BareNumberRange ==
    (/\ decision # "none"
     /\ DOMAIN filters = {"team_sizes"}
     /\ Len(filters["team_sizes"]) = 1
     /\ IsBareNumber(filters["team_sizes"][1])) =>
        LET tok == filters["team_sizes"][1].s
            size == SizeOf(companies[Current])
        IN  (decision = "accept") <=> (IF tok = <<"5">> THEN size >= 5 ELSE size = ToInt(tok))

\* C10 witness: with the token "5", a record without team size (0) was
\* rejected and team size 10000 accepted
C10_Witness ==
    /\ pc = "done"
    /\ filters = [team_sizes |-> <<JStr(<<"5">>)>>]
    /\ companies = <<Dune, Cora>>
    /\ SizeOf(Dune) = 0 /\ SizeOf(Cora) = 10000
    /\ filtered_companies = <<Cora>>

\* ------------------------------------------------------------------ C11
ThousandPlus == <<"1", ",", "0", "0", "0", "+">>

\* C11: with the team-size filter token "1,000+" (the only filter), a record
\* is accepted iff its team size is at least 1000: 1000 and every larger
\* value are accepted, 999 is rejected.
C11_ThousandPlusBucket ==
    (/\ decision # "none"
     /\ filters = [team_sizes |-> <<JStr(ThousandPlus)>>]) =>
        /\ decision \in {"accept", "reject"}
        /\ (decision = "accept") <=> (SizeOf(companies[Current]) >= 1000)

\* C11 witness: under "1,000+" team size 999 was rejected, 1000 accepted
C11_Witness ==
    /\ pc = "done"
    /\ filters = [team_sizes |-> <<JStr(ThousandPlus)>>]
    /\ companies = <<Bolt, Flux>>
    /\ SizeOf(Bolt) = 999 /\ SizeOf(Flux) = 1000
    /\ filtered_companies = <<Flux>>

\* ------------------------------------------------------------------ C12
\* a literal that denotes an open-ended upper bucket: a number (digits and
\* thousands separators, starting with a digit) followed by "+"
IsOpenEnded(s) ==
    /\ Len(s) >= 2
    /\ s[Len(s)] = "+"
    /\ IsDigit(s[1])
    /\ \A j \in 1..(Len(s) - 1) : IsDigit(s[j]) \/ s[j] = ","

\* C12: parse_team_size_range returns max = infinity for every literal that
\* denotes an open-ended upper bucket ("1,000+", "500+", "5,000+") and a
\* finite max for every other literal.
C12_InfinityIffOpenEnded ==
    (decision # "none" /\ "team_sizes" \in DOMAIN filters) =>
        \A k \in 1..Len(filters["team_sizes"]) :
            LET tok == filters["team_sizes"][k] IN
            tok.t = "str" =>
                /\ ~parse_team_size_range(tok).raise
                /\ parse_team_size_range(tok).inf <=> IsOpenEnded(tok.s)

\* ------------------------------------------------------------------ C13
\* the team size lies within the TeamSizeRange of the token: the range
\* parse_team_size_range returns, and "5 or more" for the token "5"
TeamSizeWithin(size, tok) ==
    IF tok = JStr(<<"5">>) THEN size >= 5
    ELSE LET r == parse_team_size_range(tok) IN
         ~r.raise /\ r.min <= size /\ (r.inf \/ size <= r.max)

TeamSizeTokens(fs) == IF "team_sizes" \in DOMAIN fs THEN fs["team_sizes"] ELSE <<>>

\* C13: a record passes the team-size category iff its team size (0 when
\* missing) lies within the range of at least one filter token; with no
\* team-size tokens the category passes for every record.
C13_TeamSizeWithinSomeRange ==
    decision # "none" =>
        LET company == companies[Current]
            toks == TeamSizeTokens(filters)
            verdict == CategoryCheck("team_sizes", company, filters)
        IN  /\ verdict \in {"pass", "fail"}
            /\ (verdict = "pass") <=>
                   (toks = <<>> \/ \E k \in 1..Len(toks) :
                                      TeamSizeWithin(SizeOf(company), toks[k]))
            /\ DOMAIN filters = {"team_sizes"} =>
                   ((decision = "accept") <=> (verdict = "pass"))

\* ------------------------------------------------------------------ C14
\* the record attribute a boolean flag of the FilterSpec is compared with
CompanyKey(fk) == IF fk = "is_hiring" THEN "isHiring" ELSE fk

\* the record's value for a flag after coercion: a str becomes the boolean
\* "it reads true", a missing attribute is false, anything else is kept
Coerced(company, fk) ==
    LET v == Get(company, CompanyKey(fk), CBool(FALSE)) IN
    IF v.t = "str" THEN CBool(lower(v.s) \in TrueWords) ELSE v

\* the record with every flag attribute holding the string "true" replaced
\* by the boolean true
WithBooleanTrue(company) ==
    [k \in DOMAIN company |->
        IF k \in {CompanyKey(fk) : fk \in BoolKeys} /\ company[k] = CStr(<<"t", "r", "u", "e">>)
        THEN CBool(TRUE) ELSE company[k]]

\* C14: a record passes the boolean flags iff, for every flag present in
\* the FilterSpec, its coerced value equals the filter value; a record
\* carrying the string "true" is decided like the same record carrying the
\* boolean true; a flag absent from the FilterSpec never rejects.
C14_BooleanFlagsExact ==
    decision # "none" =>
        LET company == companies[Current]
            flags == DOMAIN filters \cap BoolKeys
            equal == \A fk \in flags : Coerced(company, fk) = CBool(filters[fk])
        IN  /\ (CategoryCheck("booleans", company, filters) = "pass") <=> equal
            /\ decision = "accept" => equal
            /\ DOMAIN filters \subseteq BoolKeys => ((decision = "accept") <=> equal)
            /\ decision = company_decision(WithBooleanTrue(company), filters)
            /\ flags = {} => CategoryCheck("booleans", company, filters) = "pass"

\* C14 witness: under top_company = true the record carrying the string
\* "true" was accepted and the record carrying false rejected
C14_Witness ==
    /\ pc = "done"
    /\ filters = [top_company |-> TRUE]
    /\ companies = <<Cora, Bolt>>
    /\ Cora["top_company"] = CStr(<<"t", "r", "u", "e">>)
    /\ Bolt["top_company"] = CBool(FALSE)
    /\ filtered_companies = <<Cora>>

\* ------------------------------------------------------------------ C15
\* the text categories and the record attribute each one reads
TextKeys == {"batches", "statuses", "stages"}

FieldKey(fk) ==
    CASE fk = "batches" -> "batch"
      [] fk = "statuses" -> "status"
      [] fk = "stages" -> "stage"

\* the text of an attribute: empty when the attribute is missing or null
FieldText(company, key) ==
    LET v == Get(company, key, CStr(<<>>)) IN IF v.t = "str" THEN v.s ELSE <<>>

\* the text contains at least one token as a case-insensitive substring
ContainsSomeToken(text, tokens) ==
    \E k \in 1..Len(tokens) : Contains(lower(tokens[k]), lower(text))

\* C15: for batch, status and stage a record passes the category iff its
\* field contains at least one filter token as a case-insensitive substring.
C15_TextSubstringMatch ==
    decision # "none" =>
        \A fk \in TextKeys \cap DOMAIN filters :
            LET company == companies[Current]
                verdict == CategoryCheck(fk, company, filters)
                contains == ContainsSomeToken(FieldText(company, FieldKey(fk)), filters[fk])
            IN  /\ verdict \in {"pass", "fail"}
                /\ (verdict = "pass") <=> contains
                /\ DOMAIN filters = {fk} => ((decision = "accept") <=> contains)

\* ------------------------------------------------------------------ C16
\* the entries of a list attribute: none when it is missing or null
ListEntries(company, key) ==
    LET v == Get(company, key, CList(<<>>)) IN IF v.t = "list" THEN v.l ELSE <<>>

\* some entry contains at least one token as a case-insensitive substring
SomeEntryContains(entries, tokens) ==
    \E j \in 1..Len(entries) : ContainsSomeToken(entries[j], tokens)

\* C16: a record passes the industry category iff its industry field
\* contains some filter token as a case-insensitive substring or, failing
\* that, some entry of its industries list does.
C16_IndustryFieldOrList ==
    (decision # "none" /\ "industries" \in DOMAIN filters) =>
        LET company == companies[Current]
            tokens == filters["industries"]
            verdict == CategoryCheck("industries", company, filters)
            matches == \/ ContainsSomeToken(FieldText(company, "industry"), tokens)
                       \/ SomeEntryContains(ListEntries(company, "industries"), tokens)
        IN  /\ verdict \in {"pass", "fail"}
            /\ (verdict = "pass") <=> matches
            /\ DOMAIN filters = {"industries"} => ((decision = "accept") <=> matches)

\* ------------------------------------------------------------------ C17
\* C17: a record passes the region category iff some entry of its regions
\* list contains some filter token as a case-insensitive substring or,
\* failing that, its all_locations text does.
C17_RegionListOrLocations ==
    (decision # "none" /\ "regions" \in DOMAIN filters) =>
        LET company == companies[Current]
            tokens == filters["regions"]
            verdict == CategoryCheck("regions", company, filters)
            matches == \/ SomeEntryContains(ListEntries(company, "regions"), tokens)
                       \/ ContainsSomeToken(FieldText(company, "all_locations"), tokens)
        IN  /\ verdict \in {"pass", "fail"}
            /\ (verdict = "pass") <=> matches
            /\ DOMAIN filters = {"regions"} => ((decision = "accept") <=> matches)

\* ------------------------------------------------------------------ C18
\* C18: a record passes the tags category iff at least one of its tags
\* contains at least one filter tag as a case-insensitive substring; a
\* record with no tags is rejected whenever a tags filter is active.
C18_TagsMatch ==
    (decision # "none" /\ "tags" \in DOMAIN filters) =>
        LET company == companies[Current]
            tokens == filters["tags"]
            verdict == CategoryCheck("tags", company, filters)
            matches == SomeEntryContains(ListEntries(company, "tags"), tokens)
        IN  /\ verdict \in {"pass", "fail"}
            /\ (verdict = "pass") <=> matches
            /\ DOMAIN filters = {"tags"} => ((decision = "accept") <=> matches)
            /\ ListEntries(company, "tags") = <<>> => decision = "reject"

\* ------------------------------------------------------------------ C19
\* the record attributes each category of the FilterSpec reads
AttributesOf(fk) ==
    CASE fk \in TextKeys -> {FieldKey(fk)}
      [] fk = "industries" -> {"industry", "industries"}
      [] fk = "regions" -> {"regions", "all_locations"}
      [] fk = "tags" -> {"tags"}
      [] fk = "team_sizes" -> {"team_size"}
      [] OTHER -> {CompanyKey(fk)}

\* the default company.get supplies for a missing attribute
DefaultOf(key) ==
    CASE key \in {"batch", "industry", "all_locations", "status", "stage"} -> CStr(<<>>)
      [] key \in {"industries", "regions", "tags"} -> CList(<<>>)
      [] key = "team_size" -> CInt(0)
      [] OTHER -> CBool(FALSE)

\* the record with every missing attribute set to its default
WithDefaults(company) ==
    [key \in DOMAIN company \cup UNION {AttributesOf(fk) : fk \in FilterKeys} |->
        IF key \in DOMAIN company THEN company[key] ELSE DefaultOf(key)]

\* C19: a record that lacks an attribute is decided like the same record
\* holding the default for it, and a category all of whose attributes are
\* missing is evaluated to pass or fail without raising.
C19_MissingAttributeIsDefault ==
    decision # "none" =>
        LET company == companies[Current] IN
        /\ decision = company_decision(WithDefaults(company), filters)
        /\ \A fk \in DOMAIN filters :
               AttributesOf(fk) \cap DOMAIN company = {} =>
                   CategoryCheck(fk, company, filters) \in {"pass", "fail"}

\* ------------------------------------------------------------------ C20
\* C20: filter_companies changes neither the records nor the FilterSpec it
\* is given: during the call every step leaves the input list (its records,
\* their number and their order) and the FilterSpec as they were.
C20_InputsUnchanged ==
    [][pc = "filtering" => (companies' = companies /\ filters' = filters)]_vars

\* C20 witness: a call over two records has returned, having accepted one
\* and rejected the other under a non-empty FilterSpec
C20_Witness ==
    /\ pc = "done"
    /\ DOMAIN filters # {}
    /\ Len(companies) = 2
    /\ i = 2
    /\ Len(filtered_companies) = 1

\* ------------------------------------------------------------------ C21
\* the records of the first n input records that the FilterSpec accepts
AcceptedAmong(n) ==
    LET Accepts(company) == company_decision(company, filters) = "accept"
    IN  SelectSeq(SubSeq(companies, 1, n), Accepts)

fetch_yc_companies_decision(company, filters_) ==
    LET batch_check == IF "batches" \in DOMAIN filters_
                       THEN AnyTokenIn(filters_["batches"], Get(company, "batch", CStr(<<>>)))
                       ELSE "pass"
        industry_check_ == IF "industries" \in DOMAIN filters_
                           THEN AnyTokenIn(filters_["industries"],
                                           Get(company, "industry", CStr(<<>>)))
                           ELSE "pass"
    IN  IF batch_check = "fail" THEN "reject"
        ELSE IF batch_check = "raise" THEN "raise"
        ELSE IF industry_check_ = "fail" THEN "reject"
        ELSE IF industry_check_ = "raise" THEN "raise"
        ELSE "accept"

\* C27: the filter of fetch_yc_companies accepts exactly the records
\* filter_companies accepts, for every FilterSpec the parser produces.
C27_SameAsFilterCompanies ==
    decision # "none" =>
        ((fetch_yc_companies_decision(companies[Current], filters) = "accept")
            <=> (decision = "accept"))

\* ------------------------------------------------------------------ C30
\* C30: each query parameter value is percent-decoded exactly once: a list
\* parameter holds the decoded values of its occurrences, a boolean
\* parameter is judged on the decoded first value, and a team_size value
\* that is not bracketed after decoding is the single token of the list,
\* also when the decoded text still contains a percent-escape.
C30_DecodedExactlyOnce ==
    pc = "parsed" =>
        LET pairs == QueryOf(url) IN
        /\ \A fk \in ListKeys :
               HasKey(pairs, QueryKey(fk)) =>
                   /\ fk \in DOMAIN filters
                   /\ filters[fk] = ValuesOf(pairs, QueryKey(fk))
        /\ \A fk \in BoolKeys :
               HasKey(pairs, QueryKey(fk)) =>
                   LET v == ValueAt(pairs, FirstIndex(pairs, QueryKey(fk))) IN
                   unquote(v) # v => (fk \in DOMAIN filters /\ filters[fk] = (lower(v) \in TrueWords))
        /\ HasKey(pairs, "team_size") =>
               LET v == ValueAt(pairs, FirstIndex(pairs, "team_size")) IN
               (unquote(v) # v /\ ~Bracketed(v)) =>
                   ("team_sizes" \in DOMAIN filters /\ filters["team_sizes"] = <<JStr(v)>>)

\* ================================================================
\* 3_send_cold_emails.py: send_cold_emails
\* ================================================================
MaxRows == 4

\* an address of founder_emails, by what the code asks of it: "invalid" has
\* no "@"; the prefix of "personal" reads as a name (extract_founder_name
\* returns at line 69); "generic" sends extract_founder_name on to the
\* company name (lines 72-79)
NeedsCompanyName(email) == email # "personal"

\* rows of yc_companies.csv; name is "nan" when the cell is empty (pandas
\* reads it as the float NaN)
Solo == [name |-> "text", founder_emails |-> <<"personal">>, email_sent |-> FALSE]
Trio == [name |-> "text", founder_emails |-> <<"personal", "personal", "personal">>,
         email_sent |-> FALSE]
Anon == [name |-> "nan", founder_emails |-> <<"personal", "generic">>, email_sent |-> FALSE]
Bare == [name |-> "text", founder_emails |-> <<>>, email_sent |-> FALSE]
Sent == [name |-> "text", founder_emails |-> <<"personal">>, email_sent |-> TRUE]
Odd == [name |-> "text", founder_emails |-> <<"invalid">>, email_sent |-> FALSE]

SendRows == {Solo, Trio, Anon, Bare, Sent, Odd}

\* extract_founder_name raises TypeError: re.sub on a company name that is
\* truthy and no str
extract_founder_name_raises(company_name, email) ==
    NeedsCompanyName(email) /\ company_name = "nan"

\* the rows with emails that have not been emailed yet (lines 139-146)
ToEmail(frame) ==
    LET Pick(j) == frame[j].founder_emails # <<>> /\ ~frame[j].email_sent
        RECURSIVE From(_)
        From(j) == IF j > Len(frame) THEN <<>>
                   ELSE IF Pick(j) THEN <<j>> \o From(j + 1) ELSE From(j + 1)
    IN  From(1)

\* the inner loop over the addresses of one company (lines 195-216) from
\* address k on; ok[k] tells whether send_email succeeds for address k
RECURSIVE SendLoop(_, _, _, _, _)
SendLoop(company_name, emails, ok, k, acc) ==
    IF k > Len(emails) THEN acc
    ELSE IF emails[k] = "invalid" THEN SendLoop(company_name, emails, ok, k + 1, acc)
    ELSE IF extract_founder_name_raises(company_name, emails[k])
         THEN [acc EXCEPT !.raised = TRUE]
    ELSE IF ok[k]
         THEN SendLoop(company_name, emails, ok, k + 1,
                       [acc EXCEPT !.sent = @ + 1, !.company_sent = TRUE])
         ELSE SendLoop(company_name, emails, ok, k + 1, [acc EXCEPT !.failed = @ + 1])

\* df = pd.read_csv(...); companies_to_email; nothing to email returns
SendLoad ==
    /\ send_pc = "start"
    /\ df' = csv
    /\ companies_to_email' = ToEmail(csv)
    /\ send_pc' = IF ToEmail(csv) = <<>> THEN "done" ELSE "preview"
    /\ UNCHANGED <<csv, start, handled, sent_count, failed_count, delivered, attempted, saves>>
    /\ UNCHANGED besideSend

\* the preview of the first email (lines 158-165): extract_founder_name may
\* raise, which the handler of line 238 turns into a return
SendPreview ==
    /\ send_pc = "preview"
    /\ LET sample_company == df[companies_to_email[1]]
           sample_email == sample_company.founder_emails[1] IN
       send_pc' = IF extract_founder_name_raises(sample_company.name, sample_email)
                  THEN "failed" ELSE "confirm"
    /\ UNCHANGED <<csv, df, start, companies_to_email, handled, sent_count, failed_count,
                   delivered, attempted, saves>>
    /\ UNCHANGED besideSend

\* confirm = input(...): anything but "y" cancels
SendConfirm ==
    /\ send_pc = "confirm"
    /\ \E confirm \in {"y", "n"} :
           send_pc' = IF confirm = "y" THEN "sending" ELSE "cancelled"
    /\ UNCHANGED <<csv, df, start, companies_to_email, handled, sent_count, failed_count,
                   delivered, attempted, saves>>
    /\ UNCHANGED besideSend

\* one pass of the outer loop (lines 185-225): the sends to one company, the
\* flag, the save when the email count is a multiple of 10; an exception
\* leaves the loop for the handler of line 238
SendCompany ==
    /\ send_pc = "sending"
    /\ handled < Len(companies_to_email)
    /\ LET index == companies_to_email[handled + 1]
           row == df[index] IN
       \E ok \in [1..Len(row.founder_emails) -> BOOLEAN] :
           LET r == SendLoop(row.name, row.founder_emails, ok, 1,
                             [sent |-> 0, failed |-> 0, company_sent |-> FALSE,
                              raised |-> FALSE])
               marked == IF r.company_sent /\ ~r.raised
                         THEN [df EXCEPT ![index].email_sent = TRUE] ELSE df
               save == ~r.raised /\ (sent_count + r.sent + failed_count + r.failed) % 10 = 0
           IN  /\ sent_count' = sent_count + r.sent
               /\ failed_count' = failed_count + r.failed
               /\ delivered' = IF r.sent > 0 THEN delivered \cup {index} ELSE delivered
               /\ attempted' = IF r.sent + r.failed > 0 THEN attempted \cup {index}
                                ELSE attempted
               /\ df' = marked
               /\ handled' = IF r.raised THEN handled ELSE handled + 1
               /\ csv' = IF save THEN marked ELSE csv
               /\ saves' = IF save THEN Append(saves, handled + 1) ELSE saves
               /\ send_pc' = IF r.raised THEN "failed" ELSE "sending"
    /\ UNCHANGED <<start, companies_to_email>>
    /\ UNCHANGED besideSend

\* the final save (line 228) after the loop
SendFinalSave ==
    /\ send_pc = "sending"
    /\ handled = Len(companies_to_email)
    /\ csv' = df
    /\ send_pc' = "done"
    /\ UNCHANGED <<df, start, companies_to_email, handled, sent_count, failed_count,
                   delivered, attempted, saves>>
    /\ UNCHANGED besideSend

InitSend ==
    /\ ApiIdle
    /\ EmailIdle
    /\ MasterIdle
    /\ ExtractIdle
    /\ csv \in SeqsUpTo(SendRows, MaxRows)
    /\ start = csv
    /\ df = <<>>
    /\ companies_to_email = <<>>
    /\ handled = 0
    /\ sent_count = 0
    /\ failed_count = 0
    /\ delivered = {}
    /\ attempted = {}
    /\ saves = <<>>
    /\ send_pc = "start"

NextSend == SendLoad \/ SendPreview \/ SendConfirm \/ SendCompany \/ SendFinalSave

SpecSend == InitSend /\ [][NextSend]_vars

\* ------------------------------------------------------------------ C22
\* the row was to be emailed when the run began
Selected(j) == start[j].founder_emails # <<>> /\ ~start[j].email_sent

\* send_cold_emails has returned
SendReturned == send_pc \in {"done", "failed", "cancelled"}

\* C22: sends go only to companies that had emails and email_sent false
\* when the run began, and when the run has returned a company's
\* email_sent is true iff it was true before or a send to it succeeded in
\* the run, so that a company whose sends all failed is selected again.
C22_SentFlagIffDelivered ==
    /\ attempted \subseteq {j \in 1..Len(start) : Selected(j)}
    /\ SendReturned =>
           \A j \in 1..Len(csv) :
               csv[j].email_sent <=> (start[j].email_sent \/ j \in delivered)

\* ------------------------------------------------------------------ C24
\* C24: the file is rewritten inside the loop exactly after the 10th, 20th,
\* ... company and at no other point before the final save.
C24_SaveEveryTenCompanies ==
    \A m \in 1..handled :
        (\E k \in 1..Len(saves) : saves[k] = m) <=> (m % 10 = 0)

\* ------------------------------------------------------------------ C28
\* C28: when send_cold_emails has returned after the loop started, by
\* completion or through its exception handler, every company that was
\* sent an email successfully in the run has email_sent true in the file.
C28_DeliveredIsRecorded ==
    send_pc \in {"done", "failed"} =>
        \A j \in delivered : csv[j].email_sent

\* ================================================================
\* 2_fetch_emails.py: fetch_all_emails
\* ================================================================
\* rows of yc_companies.csv as this script sees them; founder_emails is the
\* list of addresses the cell holds
Fresh == [email_fetched |-> FALSE, founder_emails |-> <<>>]
Stale == [email_fetched |-> FALSE, founder_emails |-> <<"old@x.com">>]
Known == [email_fetched |-> TRUE, founder_emails |-> <<"old@x.com">>]
Blank == [email_fetched |-> TRUE, founder_emails |-> <<>>]

EmailRows == {Fresh, Stale, Known, Blank}

\* fetch_emails_from_company_page: the addresses found on the page; the
\* empty list when none is found and when the request or the parsing
\* raises (lines 54-59)
fetch_emails_from_company_page(outcome) ==
    CASE outcome = "found" -> <<"new@x.com">>
      [] outcome = "none" -> <<>>
      [] outcome = "error" -> <<>>

\* mutant: every row is selected, fetched or not
ToProcess_All(frame) == [j \in 1..Len(frame) |-> j]

\* df[df['email_fetched'] == False]: the rows not fetched yet (line 93)
ToProcess(frame) ==
    LET RECURSIVE From(_)
        From(j) == IF j > Len(frame) THEN <<>>
                   ELSE IF ~frame[j].email_fetched THEN <<j>> \o From(j + 1)
                   ELSE From(j + 1)
    IN  From(1)

\* df = pd.read_csv(...); companies_to_process; nothing to process returns
EmailLoad ==
    /\ email_pc = "start"
    /\ df' = csv
    /\ companies_to_process' = ToProcess(csv)
    /\ email_pc' = IF ToProcess(csv) = <<>> THEN "done" ELSE "scraping"
    /\ UNCHANGED <<csv, start, processed_count, scraped>>
    /\ UNCHANGED besideEmail

\* one pass of the loop (lines 102-124): the scrape, the update of the row,
\* the save after every 10th row
EmailScrape ==
    /\ email_pc = "scraping"
    /\ processed_count < Len(companies_to_process)
    /\ LET index == companies_to_process[processed_count + 1] IN
       \E outcome \in {"found", "none", "error"} :
           LET emails == fetch_emails_from_company_page(outcome)
               updated == [df EXCEPT ![index] =
                              [email_fetched |-> TRUE, founder_emails |-> emails]]
           IN  /\ df' = updated
               /\ scraped' = Append(scraped, index)
               /\ processed_count' = processed_count + 1
               /\ csv' = IF (processed_count + 1) % 10 = 0 THEN updated ELSE csv
    /\ UNCHANGED <<start, companies_to_process, email_pc>>
    /\ UNCHANGED besideEmail

\* the final save (line 127) after the loop
EmailFinalSave ==
    /\ email_pc = "scraping"
    /\ processed_count = Len(companies_to_process)
    /\ csv' = df
    /\ email_pc' = "done"
    /\ UNCHANGED <<df, start, companies_to_process, processed_count, scraped>>
    /\ UNCHANGED besideEmail

InitEmail ==
    /\ ApiIdle
    /\ SendIdle
    /\ MasterIdle
    /\ ExtractIdle
    /\ csv \in SeqsUpTo(EmailRows, MaxRows)
    /\ start = csv
    /\ df = <<>>
    /\ companies_to_process = <<>>
    /\ processed_count = 0
    /\ scraped = <<>>
    /\ email_pc = "start"

NextEmail == EmailLoad \/ EmailScrape \/ EmailFinalSave

SpecEmail == InitEmail /\ [][NextEmail]_vars

\* ------------------------------------------------------------------ C23
\* the rows whose email_fetched was false when the run began
Unfetched == {j \in 1..Len(start) : ~start[j].email_fetched}

\* C23: fetch_all_emails scrapes exactly the rows whose email_fetched was
\* false when the run began, each once; rows already fetched keep their
\* founder_emails; when the run completes every row of the file has
\* email_fetched true, whatever the scrapes gave.
C23_ScrapesUnfetchedOnce ==
    /\ \A k \in 1..Len(scraped) : scraped[k] \in Unfetched
    /\ \A k, m \in 1..Len(scraped) : scraped[k] = scraped[m] => k = m
    /\ \A j \in 1..Len(df) :
           j \notin Unfetched => df[j].founder_emails = start[j].founder_emails
    /\ \A j \in 1..Len(csv) :
           j \notin Unfetched => csv[j].founder_emails = start[j].founder_emails
    /\ email_pc = "done" =>
           /\ {scraped[k] : k \in 1..Len(scraped)} = Unfetched
           /\ Len(csv) = Len(start)
           /\ \A j \in 1..Len(csv) : csv[j].email_fetched

\* C23 witness: a run has completed in which one row was scraped without
\* result and a row fetched before still holds its addresses
C23_Witness ==
    /\ email_pc = "done"
    /\ \E j \in 1..Len(csv) :
           j \in Unfetched /\ csv[j].email_fetched /\ csv[j].founder_emails = <<>>
    /\ \E j \in 1..Len(csv) :
           start[j].email_fetched /\ csv[j].founder_emails = <<"old@x.com">>

\* ================================================================
\* yc_outreach_tool.py: the master database in the spreadsheet
\* ================================================================
MaxMaster == 2
MaxFetched == 2

\* the text str() gives for a boolean, which is what the spreadsheet stores
TrueText == PyStr(<<"T", "r", "u", "e">>)
FalseText == PyStr(<<"F", "a", "l", "s", "e">>)

\* str(row[col]) for the email_fetched cell (line 431)
str_cell(v) == IF v.t = "bool" THEN (IF v.b THEN TrueText ELSE FalseText) ELSE v

\* rows of the spreadsheet as an earlier run wrote them
MasterRows ==
    {[slug |-> s, email_fetched |-> c[1], founder_emails |-> c[2]] :
        s \in {"acme", "bolt"},
        c \in {<<TrueText, "old@x.com">>, <<TrueText, "">>, <<FalseText, "">>}}

\* companies as fetch_yc_companies returns them
FetchedCompanies == {[slug |-> s] : s \in {"acme", "bolt", "cora"}}

\* new_df: one row per fetched company, not fetched, without emails
\* (lines 373-394)
new_df(nc) ==
    [k \in 1..Len(nc) |->
        [slug |-> nc[k].slug, email_fetched |-> PyBool(FALSE), founder_emails |-> ""]]

\* mutant: every fetched company is appended, known or not
merge_companies_with_master_AppendAll(nc, m) == m \o new_df(nc)

\* merge_companies_with_master (lines 368-413)
merge_companies_with_master(nc, m) ==
    IF m = <<>> THEN new_df(nc)
    ELSE LET existing_slugs == {m[j].slug : j \in 1..Len(m)}
             NotExisting(r) == r.slug \notin existing_slugs
             truly_new_companies == SelectSeq(new_df(nc), NotExisting)
         IN  IF truly_new_companies # <<>> THEN m \o truly_new_companies ELSE m

\* the rows main extracts emails for (lines 569-572)
NeedingEmails(frame) ==
    LET RECURSIVE From(_)
        From(j) == IF j > Len(frame) THEN <<>>
                   ELSE IF frame[j].email_fetched = PyBool(FALSE)
                           \/ frame[j].founder_emails = ""
                        THEN <<j>> \o From(j + 1)
                        ELSE From(j + 1)
    IN  From(1)

\* how a call of update_master_database can end: each of the three
\* spreadsheet calls can raise, and the handler only prints (lines 441-442)
UploadOutcomes == {"ok", "clear_failed", "update_failed", "format_failed"}

\* the spreadsheet after update_master_database(worksheet, df) (lines 415-442)
update_master_database(sheet, frame, outcome) ==
    CASE outcome = "clear_failed" -> sheet
      [] outcome = "update_failed" -> <<>>
      [] OTHER -> [j \in 1..Len(frame) |->
                      [frame[j] EXCEPT !.email_fetched = str_cell(@)]]

\* master_df = load_master_database(worksheet): the records, or an empty
\* frame when the read raises (lines 215-235)
MasterLoad ==
    /\ master_pc = "start"
    /\ \E ok \in BOOLEAN : master_df' = IF ok THEN worksheet ELSE <<>>
    /\ master_pc' = "loaded"
    /\ UNCHANGED <<worksheet, new_companies, merged_df, companies_needing_emails,
                   extracted, sheet_before, upload>>
    /\ UNCHANGED besideMaster

\* new_companies = fetch_yc_companies(filters); main returns when there is
\* none (lines 558-563)
MasterFetch ==
    /\ master_pc = "loaded"
    /\ \E nc \in SeqsUpTo(FetchedCompanies, MaxFetched) :
           /\ new_companies' = nc
           /\ master_pc' = IF nc = <<>> THEN "done" ELSE "fetched"
    /\ UNCHANGED <<worksheet, master_df, merged_df, companies_needing_emails,
                   extracted, sheet_before, upload>>
    /\ UNCHANGED besideMaster

\* merged_df = merge_companies_with_master(...); companies_needing_emails
MasterMerge ==
    /\ master_pc = "fetched"
    /\ merged_df' = merge_companies_with_master(new_companies, master_df)
    /\ companies_needing_emails' = NeedingEmails(merged_df')
    /\ master_pc' = "merged"
    /\ UNCHANGED <<worksheet, master_df, new_companies, extracted, sheet_before, upload>>
    /\ UNCHANGED besideMaster

\* one pass of the extraction loop (lines 581-603): every row with the
\* slug of the row is updated; the spreadsheet is rewritten after every
\* 10th row
MasterExtract ==
    /\ master_pc \in {"merged", "extracting"}
    /\ extracted < Len(companies_needing_emails)
    /\ LET slug == merged_df[companies_needing_emails[extracted + 1]].slug IN
       \E emails \in {"new@x.com", ""}, outcome \in UploadOutcomes :
           LET updated == [j \in 1..Len(merged_df) |->
                              IF merged_df[j].slug = slug
                              THEN [slug |-> slug, email_fetched |-> PyBool(TRUE),
                                    founder_emails |-> emails]
                              ELSE merged_df[j]]
           IN  /\ merged_df' = updated
               /\ IF (extracted + 1) % 10 = 0
                  THEN /\ sheet_before' = worksheet
                       /\ worksheet' = update_master_database(worksheet, updated, outcome)
                       /\ upload' = outcome
                  ELSE /\ outcome = "ok"
                       /\ UNCHANGED <<worksheet, sheet_before, upload>>
    /\ extracted' = extracted + 1
    /\ master_pc' = "extracting"
    /\ UNCHANGED <<master_df, new_companies, companies_needing_emails>>
    /\ UNCHANGED besideMaster

\* the final save (line 606)
MasterUpdate ==
    /\ master_pc \in {"merged", "extracting"}
    /\ extracted = Len(companies_needing_emails)
    /\ \E outcome \in UploadOutcomes :
           /\ worksheet' = update_master_database(worksheet, merged_df, outcome)
           /\ upload' = outcome
    /\ sheet_before' = worksheet
    /\ master_pc' = "done"
    /\ UNCHANGED <<master_df, new_companies, merged_df, companies_needing_emails, extracted>>
    /\ UNCHANGED besideMaster

InitMaster ==
    /\ ApiIdle
    /\ FileIdle
    /\ SendIdle
    /\ EmailIdle
    /\ ExtractIdle
    /\ worksheet \in SeqsUpTo(MasterRows, MaxMaster)
    /\ master_df = <<>>
    /\ new_companies = <<>>
    /\ merged_df = <<>>
    /\ companies_needing_emails = <<>>
    /\ extracted = 0
    /\ sheet_before = <<>>
    /\ upload = "none"
    /\ master_pc = "start"

NextMaster == MasterLoad \/ MasterFetch \/ MasterMerge \/ MasterExtract \/ MasterUpdate

SpecMaster == InitMaster /\ [][NextMaster]_vars

\* ------------------------------------------------------------------ C25
\* the fetched companies, by position, whose slug the master does not hold
TrulyNew == {k \in 1..Len(new_companies) :
                \A j \in 1..Len(master_df) : master_df[j].slug # new_companies[k].slug}

\* C25: the result of merge_companies_with_master is every row of the
\* master, unchanged and in order, followed by exactly the fetched
\* companies whose slug the master does not hold, in their order and as
\* rows not fetched and without emails; a fetched company whose slug is
\* in the master leaves that row's email_fetched and founder_emails alone.
C25_MergeOnSlug ==
    master_pc = "merged" =>
        /\ Len(merged_df) = Len(master_df) + Cardinality(TrulyNew)
        /\ \A j \in 1..Len(master_df) : merged_df[j] = master_df[j]
        /\ \A k \in TrulyNew :
               LET at == Len(master_df) + Cardinality({m \in TrulyNew : m <= k}) IN
               /\ merged_df[at].slug = new_companies[k].slug
               /\ merged_df[at].email_fetched = PyBool(FALSE)
               /\ merged_df[at].founder_emails = ""

\* C25 witness: the merge has met a fetched company the master already
\* holds, fetched and with emails, and another one it does not hold
C25_Witness ==
    /\ master_pc = "merged"
    /\ TrulyNew # {}
    /\ \E k \in 1..Len(new_companies), j \in 1..Len(master_df) :
           /\ master_df[j].slug = new_companies[k].slug
           /\ merged_df[j].email_fetched = TrueText
           /\ merged_df[j].founder_emails = "old@x.com"

\* ------------------------------------------------------------------ C29
\* C29: when the upload step of update_master_database fails, the rows
\* the spreadsheet held before the call are still in it after the call.
C29_FailedUploadKeepsRows ==
    upload = "update_failed" =>
        \A j \in 1..Len(sheet_before) :
            \E k \in 1..Len(worksheet) : worksheet[k] = sheet_before[j]

\* ================================================================
\* yc_extension_server.py: POST /extract
\* ================================================================
\* request bodies: a JSON object with a url, a JSON object without one,
\* the empty JSON object, and a body that is not JSON
MaxServed == 3

Bodies == {"url", "no_url", "empty", "malformed"}

\* companies as fetch_yc_companies returns them to the handler
ServerCompanies == {"Acme", "Bolt", "Cora"}

\* a response: its status, the keys of its JSON object, and the values of
\* the keys the handler can set
Response(status, success, keys, entries, total) ==
    [status |-> status, success |-> success, keys |-> keys,
     companies |-> entries, total_companies |-> total]

\* the handler's answer to any exception (lines 116-121)
ServerError == Response(500, FALSE, {"success", "error"}, <<>>, 0)

\* extract_emails_from_page for one company: addresses, none, or raising
EmailsOf(outcome) == IF outcome = "found" THEN <<"founder@x.com">> ELSE <<>>

\* results.append(...) of the try block and of its handler (lines 76-99)
EntriesAfter(entries, company, outcome) ==
    IF outcome = "raised"
    THEN Append(entries, [name |-> company, emails |-> <<>>])
    ELSE Append(entries, [name |-> company, emails |-> EmailsOf(outcome)])

\* data = request.get_json() and the check of the url (lines 45-52):
\* get_json raises for a body that is not JSON, which the handler at
\* line 116 answers
ExtractRequest ==
    /\ extract_pc = "start"
    /\ IF body = "malformed"
       THEN response' = ServerError /\ extract_pc' = "done"
       ELSE IF body \in {"empty", "no_url"}
       THEN /\ response' = Response(400, FALSE, {"success", "error"}, <<>>, 0)
            /\ extract_pc' = "done"
       ELSE /\ extract_pc' = "fetching"
            /\ UNCHANGED response
    /\ UNCHANGED <<body, server_companies, results, fetches>>
    /\ UNCHANGED besideExtract

\* filters and companies; no company answers at once (lines 56-68)
ExtractFetch ==
    /\ extract_pc = "fetching"
    /\ fetches' = fetches + 1
    /\ \E found \in SeqsUpTo(ServerCompanies, MaxServed) :
           /\ server_companies' = found
           /\ IF found = <<>>
              THEN /\ response' = Response(200, TRUE,
                                       {"success", "companies", "message"}, <<>>, 0)
                   /\ extract_pc' = "done"
              ELSE /\ extract_pc' = "extracting"
                   /\ UNCHANGED response
    /\ UNCHANGED <<body, results>>
    /\ UNCHANGED besideExtract

\* one pass of the loop over the companies (lines 73-99)
ExtractCompany ==
    /\ extract_pc = "extracting"
    /\ Len(results) < Len(server_companies)
    /\ \E outcome \in {"found", "none", "raised"} :
           results' = EntriesAfter(results, server_companies[Len(results) + 1], outcome)
    /\ UNCHANGED <<body, server_companies, response, fetches, extract_pc>>
    /\ UNCHANGED besideExtract

\* the answer after the loop (lines 102-114)
ExtractRespond ==
    /\ extract_pc = "extracting"
    /\ Len(results) = Len(server_companies)
    /\ response' = Response(200, TRUE, {"success", "companies", "summary"},
                            results, Len(results))
    /\ extract_pc' = "done"
    /\ UNCHANGED <<body, server_companies, results, fetches>>
    /\ UNCHANGED besideExtract

InitExtract ==
    /\ ApiIdle
    /\ FileIdle
    /\ SendIdle
    /\ EmailIdle
    /\ MasterIdle
    /\ body \in Bodies
    /\ server_companies = <<>>
    /\ results = <<>>
    /\ response = <<>>
    /\ fetches = 0
    /\ extract_pc = "start"

NextExtract == ExtractRequest \/ ExtractFetch \/ ExtractCompany \/ ExtractRespond

SpecExtract == InitExtract /\ [][NextExtract]_vars

\* ------------------------------------------------------------------ C26
\* C26: the answer to a request that carries a url has one entry per
\* company the filter step returned, in the same order, and
\* summary.total_companies is their number; the entry of a company whose
\* extraction raised has no emails and the loop goes on; a request without
\* a url is answered with success false and status 400, and no fetch is
\* made for it.
C26_OneEntryPerCompany ==
    extract_pc = "done" =>
        IF body = "url"
        THEN /\ "companies" \in response.keys
             /\ Len(response.companies) = Len(server_companies)
             /\ \A k \in 1..Len(server_companies) :
                    response.companies[k].name = server_companies[k]
             /\ "summary" \in response.keys
             /\ response.total_companies = Len(server_companies)
        ELSE /\ response.success = FALSE
             /\ response.status = 400
             /\ fetches = 0

====
